---- MODULE Spec2Model ----
(***************************************************************************)
(* Probability-of-touch calculator (app.py): the pure estimator            *)
(* prob_touch and one run of the Streamlit script, from the data fetch to  *)
(* the display of the results.                                             *)
(*                                                                         *)
(* Numbers.  A Python value is a record [t |-> type, v |-> integer]:       *)
(*   "float"    a Python float (ticker.info price, float(custom strike)),  *)
(*   "float64"  a numpy scalar read from a DataFrame (chain strike, IV),   *)
(*   "int"      the Python int literal 0 of lines 15, 144 and 145,         *)
(*   "nan" / "inf"  the non-finite float64 values,                         *)
(*   "NoneType" None,                                                      *)
(*   an exception name when the evaluation raised.                         *)
(* Units of v: prices in whole price units, implied volatility in percent  *)
(* (0.25 is 25), T in days (the code's T is days / 365), logarithms in     *)
(* 1/1000, probabilities in 1/One with One = 10^Digits: the rounding unit  *)
(* 1/One stands for the ulp of the binary64 values of the code.            *)
(***************************************************************************)
EXTENDS Integers, Sequences, FiniteSets, TLC

VARIABLES
    pc,                     \* position of the script run
    strategy, use_custom_strikes, custom_call_strike, custom_put_strike,
    pct_OTM, days_to_expiration, agree,          \* sidebar inputs
    S, history_ok, expirations, calls, puts,     \* market data (yfinance)
    actual_days_to_expiration,
    call_strike, put_strike, call_row, put_row,
    call_iv, put_iv, pot_call, pot_put,
    prob_either_touch, prob_neither_touch,
    exc,                    \* the exception in flight, "" when none
    errors,                 \* st.error messages shown, in order
    shown,                  \* result lines written by the display section
    fS, fK, fT, fSigma, fpc, fRet   \* one isolated call of prob_touch

inputs == <<strategy, use_custom_strikes, custom_call_strike, custom_put_strike,
            pct_OTM, days_to_expiration, agree>>
market == <<S, history_ok, expirations, calls, puts>>
strikes == <<call_strike, put_strike>>
rows == <<call_row, put_row>>
ivs == <<call_iv, put_iv>>
pots == <<pot_call, pot_put, prob_either_touch, prob_neither_touch>>
fvars == <<fS, fK, fT, fSigma, fpc, fRet>>
vars == <<pc, inputs, market, actual_days_to_expiration, strikes, rows, ivs,
          pots, exc, errors, shown, fvars>>

----
\* Bounds of the model.
Digits == 3
MaxPrice == 8

One == 10 ^ Digits

----
\* Python values.
Float(n) == [t |-> "float", v |-> n]
Float64(n) == [t |-> "float64", v |-> n]
PyInt(n) == [t |-> "int", v |-> n]
NaN == [t |-> "nan", v |-> 0]
Inf == [t |-> "inf", v |-> 1]
None == [t |-> "NoneType", v |-> 0]
Raised(e) == [t |-> e, v |-> 0]

Exceptions == {"ZeroDivisionError", "ValueError", "TypeError", "IndexError"}
IsNum(x) == x.t \in {"float", "float64", "int"}
IsRaised(x) == x.t \in Exceptions
Abs(n) == IF n < 0 THEN 0 - n ELSE n

\* math.log on the positive integers, in 1/1000 (additive: ln(a*b) = ln a + ln b).
LnTab == <<0, 693, 1099, 1386, 1609, 1792, 1946, 2079, 2198, 2302, 2398, 2485>>

\* scipy.stats.norm.cdf at z = 0.0, 0.1, ..., 5.0, in 1/10^6.
PhiTab == <<500000, 539828, 579260, 617911, 655422, 691462, 725747, 758036,
            788145, 815940, 841345, 864334, 884930, 903200, 919243, 933193,
            945201, 955435, 964070, 971283, 977250, 982136, 986097, 989276,
            991802, 993790, 995339, 996533, 997445, 998134, 998650, 999032,
            999313, 999517, 999663, 999767, 999841, 999892, 999928, 999952,
            999968, 999979, 999987, 999991, 999995, 999997, 999998, 999999,
            999999, 1000000, 1000000>>

\* A table entry rounded to the nearest representable probability.
Rnd(x) == (2 * x + 10 ^ (6 - Digits)) \div (2 * 10 ^ (6 - Digits))

RECURSIVE Bisect(_, _, _)
Bisect(n, lo, hi) ==
    IF hi - lo <= 1 THEN lo
    ELSE LET mid == (lo + hi) \div 2
         IN  IF mid * mid <= n THEN Bisect(n, mid, hi) ELSE Bisect(n, lo, mid)

\* math.sqrt(T) in 1/1000, T given in days (T = days / 365.0, line 142).
sqrt(T) == Bisect((T * 1000000) \div 365, 0, 4096)

\* math.log(S / K) of line 19, in 1/1000.  S is a Python float.  A numpy K
\* of zero divides to inf or nan with a warning, a Python K of zero raises;
\* math.log raises on a ratio that is zero or negative.
log_ratio(S_, K) ==
    IF K.v = 0 THEN
        IF K.t = "float64"
        THEN IF S_.v > 0 THEN Inf
             ELSE IF S_.v < 0 THEN Raised("ValueError") ELSE NaN
        ELSE Raised("ZeroDivisionError")
    ELSE IF S_.v = 0 \/ ((S_.v < 0) # (K.v < 0)) THEN Raised("ValueError")
    ELSE Float(LnTab[Abs(S_.v)] - LnTab[Abs(K.v)])

\* norm.cdf(num / den) for num >= 0, den > 0, num / den in tenths: the table,
\* linearly interpolated, and exactly 1 from the end of the table on.
norm_cdf(num, den) ==
    LET i == num \div den
        r == num % den
    IN  IF i + 2 > Len(PhiTab) THEN One
        ELSE LET a == Rnd(PhiTab[i + 1])
                 b == Rnd(PhiTab[i + 2])
             IN  a + ((b - a) * r) \div den

\* The formula without the factor 2 (the one-sided tail).
reflection_one_sided(l, T, sigma) ==
    LET num == Abs(l.v) * 1000
        den == sigma.v * sqrt(T)
    IN  IF l.t = "nan" \/ sigma.t = "nan" THEN NaN
        ELSE IF l.t = "inf" THEN Float64(0)
        ELSE Float64(One - norm_cdf(num, den))

\* The formula without the complement: 2 * norm.cdf(z).
reflection_no_complement(l, T, sigma) ==
    LET num == Abs(l.v) * 1000
        den == sigma.v * sqrt(T)
    IN  IF l.t = "nan" \/ sigma.t = "nan" THEN NaN
        ELSE IF l.t = "inf" THEN Float64(2 * One)
        ELSE Float64(2 * norm_cdf(num, den))

\* 2 * (1 - norm.cdf(abs(l) / (sigma * sqrt(T)))) for the logarithm l.  The
\* float64 division by a zero denominator gives inf, or nan for 0 / 0; a
\* negative denominator gives norm.cdf(-z) = 1 - norm.cdf(z).
reflection(l, T, sigma) ==
    LET num == Abs(l.v) * 1000
        den == sigma.v * sqrt(T)
    IN  IF l.t = "nan" \/ sigma.t = "nan" THEN NaN
        ELSE IF den = 0 /\ l.t # "inf" /\ num = 0 THEN NaN
        ELSE IF den = 0 \/ l.t = "inf"
             THEN Float64(IF den < 0 THEN 2 * One ELSE 2 * (One - One))
        ELSE IF den < 0 THEN Float64(2 * norm_cdf(num, 0 - den))
        ELSE Float64(2 * (One - norm_cdf(num, den)))

\* prob_touch with a guard that tests T alone.
prob_touch_T_only(S_, K, T, sigma) ==
    IF T <= 0 THEN PyInt(0)
    ELSE LET l == log_ratio(S_, K)
         IN  IF IsRaised(l) THEN l ELSE reflection(l, T, sigma)

\* def prob_touch(S, K, T, sigma).  A nan sigma fails the test sigma <= 0.
prob_touch(S_, K, T, sigma) ==
    IF T <= 0 \/ (sigma.t # "nan" /\ sigma.v <= 0) THEN PyInt(0)
    ELSE LET l == log_ratio(S_, K)
         IN  IF IsRaised(l) THEN l ELSE reflection(l, T, sigma)

----
\* Python comparisons and arithmetic on probabilities; nan compares false.
Gt(a, b) == a.t # "nan" /\ b.t # "nan" /\ a.v > b.v
Lt(a, b) == a.t # "nan" /\ b.t # "nan" /\ a.v < b.v

\* max(a, b) and min(a, b) of Python: b wins only when it compares greater
\* (less) than a, so a nan first argument is returned as it is.
max(a, b) == IF Gt(b, a) THEN b ELSE a
min(a, b) == IF Lt(b, a) THEN b ELSE a

\* min(max(pot, 0), 1), lines 147-148.
clamp(pot) == min(max(pot, PyInt(0)), PyInt(One))

\* a * b of two probabilities, rounded to the nearest unit.
Mul(a, b) == (2 * a * b + One) \div (2 * One)

\* pot_call + pot_put - (pot_call * pot_put), line 150.
either_touch(pc_, pp) ==
    IF pc_.t = "nan" \/ pp.t = "nan" THEN NaN
    ELSE Float64(pc_.v + pp.v - Mul(pc_.v, pp.v))

\* The complement taken as 1 - pot_call - pot_put, without the overlap.
neither_touch_no_overlap(pc_, pp, either) ==
    IF pc_.t = "nan" \/ pp.t = "nan" THEN NaN
    ELSE Float64(One - pc_.v - pp.v)

\* 1 - prob_either_touch, line 151.
neither_touch(pc_, pp, either) ==
    IF either.t = "nan" THEN NaN ELSE Float64(One - either.v)

\* f"{x:.1%}": a percentage with one decimal, as the number of 0.1% steps.
percent1(x) ==
    IF x.t = "nan" THEN [v |-> 0, text |-> "nan%"]
    ELSE [v |-> (2 * x.v * 1000 + One) \div (2 * One), text |-> "%"]

\* f"{iv:.2%}" of an implied volatility (held in percent): the number of
\* 0.01% steps.  Formatting None raises TypeError.
percent2(iv) ==
    IF iv.t = "nan" THEN [v |-> 0, text |-> "nan%"]
    ELSE [v |-> iv.v * 100, text |-> "%"]

\* f"{x}" and f"{x:,.2f}" of a strike, a price or a day count.
plain(x) == [v |-> x.v, text |-> ""]

\* One written line: st.metric(label, ...), st.write, st.subheader.
Line(label, s) == [label |-> label, v |-> s.v, text |-> s.text]

----
\* The option chain: a DataFrame is a sequence of rows.
Row(k, iv) == [strike |-> Float64(k), impliedVolatility |-> iv]
Rows(ks, iv) == [i \in 1..Len(ks) |-> Row(ks[i], iv)]
DataFrame(rs) == [t |-> "DataFrame", rows |-> rs]
NoFrame == [t |-> "NoneType", rows |-> <<>>]

\* calls[calls['strike'] == call_strike], lines 119-120.
filter(chain, strike) ==
    IF strike.t = "NoneType" THEN NoFrame
    ELSE DataFrame(SelectSeq(chain, LAMBDA r : r.strike.v = strike.v))

\* |strike - target| in 1/100 of a price unit.
distance(row, target100) == Abs(100 * row.strike.v - target100)

\* The strike farthest from the target (the last index of the argsort).
farthest(chain, target100) ==
    {chain[i].strike : i \in {i \in 1..Len(chain) :
        \A j \in 1..Len(chain) :
            distance(chain[i], target100) >= distance(chain[j], target100)}}

\* chain['strike'].iloc[(chain['strike'] - target).abs().argsort()[0]],
\* lines 115-116: a strike at the least distance (the sort need not be
\* stable, so any of the equidistant ones).
nearest(chain, target100) ==
    {chain[i].strike : i \in {i \in 1..Len(chain) :
        \A j \in 1..Len(chain) :
            distance(chain[i], target100) <= distance(chain[j], target100)}}

\* min(future_expirations, key=lambda d: abs(d - target)), line 99: the first
\* of the closest dates.  Dates are day offsets from today.
closest(future, target) ==
    future[CHOOSE i \in 1..Len(future) :
        /\ \A j \in 1..Len(future) :
               Abs(future[i] - target) <= Abs(future[j] - target)
        /\ \A j \in 1..(i - 1) :
               Abs(future[j] - target) > Abs(future[i] - target)]

needs_call == strategy \in {"Iron Condor", "Short Call"}
needs_put == strategy \in {"Iron Condor", "Short Put"}

----
\* Inputs of a run.
Strategies == {"Iron Condor", "Short Put", "Short Call"}
CustomCallStrikes == {Float(5), Float(6)}
CustomPutStrikes == {Float(3), Float(4)}
PercentsOTM == {0, 25, 50}
DaysToExpiration == {2, 200}
Spots == {None, Float(0), Float(4)}
ExpirationLists == {<<>>, <<0 - 1>>, <<0, 30>>, <<91, 365>>}
CallStrikeLists == {<<>>, <<4, 6>>, <<5, 6, 8>>}
PutStrikeLists == {<<>>, <<2, 4>>, <<1, 3, 4>>}
\* impliedVolatility cells: a missing value of a float64 column is nan.
ImpliedVolatilities == {NaN, Float64(0), Float64(50), Float64(100)}

NoCall == /\ fS = None /\ fK = None /\ fT = 0 /\ fSigma = None
          /\ fpc = "idle" /\ fRet = None

\* The state when the script starts: the sidebar widgets hold the inputs
\* (lines 27-70), nothing is fetched or computed yet.
Init ==
    /\ pc = "fetch"
    /\ strategy \in Strategies
    /\ use_custom_strikes \in BOOLEAN
    /\ custom_call_strike \in
         IF use_custom_strikes /\ needs_call THEN CustomCallStrikes ELSE {None}
    /\ custom_put_strike \in
         IF use_custom_strikes /\ needs_put THEN CustomPutStrikes ELSE {None}
    /\ pct_OTM \in IF use_custom_strikes THEN {0} ELSE PercentsOTM
    /\ days_to_expiration \in DaysToExpiration
    /\ agree \in BOOLEAN
    /\ S = None /\ history_ok = TRUE
    /\ expirations = <<>> /\ calls = <<>> /\ puts = <<>>
    /\ actual_days_to_expiration = 0
    /\ call_strike = None /\ put_strike = None
    /\ call_row = NoFrame /\ put_row = NoFrame
    /\ call_iv = None /\ put_iv = None
    /\ pot_call = None /\ pot_put = None
    /\ prob_either_touch = None /\ prob_neither_touch = None
    /\ exc = "" /\ errors = <<>> /\ shown = <<>>
    /\ NoCall

\* Lines 76-81: the price, the history and the percentage change.  A
\* history of fewer than two rows fails .iloc[-2]; S - previous_close
\* fails when S is None.
FetchData ==
    /\ pc = "fetch"
    /\ \E s \in Spots, h \in BOOLEAN :
         /\ S' = s
         /\ history_ok' = h
         /\ exc' = IF ~h THEN "IndexError"
                   ELSE IF s.t = "NoneType" THEN "TypeError" ELSE ""
         /\ pc' = IF ~h \/ s.t = "NoneType" THEN "except" ELSE "check_price"
    /\ UNCHANGED <<inputs, expirations, calls, puts, actual_days_to_expiration,
                   strikes, rows, ivs, pots, errors, shown, fvars>>

\* Lines 83-85: if S is None: st.error(...); st.stop().
CheckPrice ==
    /\ pc = "check_price"
    /\ IF S.t = "NoneType"
       THEN /\ errors' = Append(errors, "Could not fetch live price for this ticker.")
            /\ pc' = "stopped"
       ELSE /\ errors' = errors
            /\ pc' = "expirations"
    /\ UNCHANGED <<inputs, market, actual_days_to_expiration, strikes, rows,
                   ivs, pots, exc, shown, fvars>>

\* Lines 87-101: the expiration closest to the requested number of days.
PickExpiration ==
    /\ pc = "expirations"
    /\ \E e \in ExpirationLists :
         LET future == SelectSeq(e, LAMBDA d : d >= 0)
         IN  /\ expirations' = e
             /\ IF e = <<>>
                THEN /\ errors' = Append(errors, "No options data found for this ticker.")
                     /\ pc' = "stopped"
                     /\ UNCHANGED actual_days_to_expiration
                ELSE IF future = <<>>
                THEN /\ errors' = Append(errors, "No future expiration dates available.")
                     /\ pc' = "stopped"
                     /\ UNCHANGED actual_days_to_expiration
                ELSE /\ errors' = errors
                     /\ pc' = "strikes"
                     /\ actual_days_to_expiration' = closest(future, days_to_expiration)
    /\ UNCHANGED <<inputs, S, history_ok, calls, puts, strikes, rows, ivs,
                   pots, exc, shown, fvars>>

\* Lines 104-116: the chain of the expiration, then the custom strikes or
\* the strikes nearest to the percent-OTM targets.  Both strikes are looked
\* up whatever the strategy; the lookup in an empty chain raises.
ResolveStrikes ==
    /\ pc = "strikes"
    /\ \E cs \in CallStrikeLists, ps \in PutStrikeLists,
          civ \in ImpliedVolatilities, piv \in ImpliedVolatilities :
         LET c == Rows(cs, civ)
             p == Rows(ps, piv)
             call_target == S.v * (100 + pct_OTM)
             put_target == S.v * (100 - pct_OTM)
         IN  /\ calls' = c
             /\ puts' = p
             /\ IF use_custom_strikes
                THEN /\ call_strike' = custom_call_strike
                     /\ put_strike' = custom_put_strike
                     /\ exc' = exc
                     /\ pc' = "availability"
                ELSE IF c = <<>> \/ p = <<>>
                THEN /\ call_strike' \in
                          IF c = <<>> THEN {None} ELSE nearest(c, call_target)
                     /\ put_strike' = None
                     /\ exc' = "IndexError"
                     /\ pc' = "except"
                ELSE /\ call_strike' \in nearest(c, call_target)
                     /\ put_strike' \in nearest(p, put_target)
                     /\ exc' = exc
                     /\ pc' = "availability"
    /\ UNCHANGED <<inputs, S, history_ok, expirations, actual_days_to_expiration,
                   rows, ivs, pots, errors, shown, fvars>>

\* Lines 119-125: the rows of the two strikes, and the stop when a strike
\* the strategy needs has no row.
CheckAvailability ==
    /\ pc = "availability"
    /\ call_row' = filter(calls, call_strike)
    /\ put_row' = filter(puts, put_strike)
    /\ IF \/ needs_call /\ (call_row'.t = "NoneType" \/ call_row'.rows = <<>>)
          \/ needs_put /\ (put_row'.t = "NoneType" \/ put_row'.rows = <<>>)
       THEN /\ errors' = Append(errors,
                "One or more of the strikes entered is not available in the options chain for this ticker")
            /\ pc' = "stopped"
       ELSE /\ errors' = errors
            /\ pc' = "iv"
    /\ UNCHANGED <<inputs, market, actual_days_to_expiration, strikes, ivs,
                   pots, exc, shown, fvars>>

\* row['impliedVolatility'].iloc[0] if row is not None else None.
iloc0(row) ==
    IF row.t = "NoneType" THEN None
    ELSE IF row.rows = <<>> THEN Raised("IndexError")
    ELSE row.rows[1].impliedVolatility

\* Lines 128-142: the implied volatility of each leg (T is
\* actual_days_to_expiration, in days).
PullImpliedVolatility ==
    /\ pc = "iv"
    /\ IF IsRaised(iloc0(call_row)) \/ IsRaised(iloc0(put_row))
       THEN /\ exc' = "IndexError"
            /\ pc' = "except"
            /\ call_iv' = IF IsRaised(iloc0(call_row)) THEN call_iv
                          ELSE iloc0(call_row)
            /\ put_iv' = put_iv
       ELSE /\ call_iv' = iloc0(call_row)
            /\ put_iv' = iloc0(put_row)
            /\ exc' = exc
            /\ pc' = "combine"
    /\ UNCHANGED <<inputs, market, actual_days_to_expiration, strikes, rows,
                   pots, errors, shown, fvars>>

\* prob_touch(S, strike, T, iv) if iv is not None else 0, lines 144-145.
leg(strike, iv) ==
    IF iv.t = "NoneType" THEN PyInt(0)
    ELSE prob_touch(S, strike, actual_days_to_expiration, iv)

\* Lines 144-151: the two touch probabilities, the clamp and the
\* combination; an exception of prob_touch leaves the rest unassigned.
Combine ==
    /\ pc = "combine"
    /\ LET raw_call == leg(call_strike, call_iv)
           raw_put == leg(put_strike, put_iv)
       IN  IF IsRaised(raw_call) \/ IsRaised(raw_put)
           THEN /\ exc' = IF IsRaised(raw_call) THEN raw_call.t ELSE raw_put.t
                /\ pc' = "except"
                /\ pot_call' = IF IsRaised(raw_call) THEN pot_call ELSE raw_call
                /\ UNCHANGED <<pot_put, prob_either_touch, prob_neither_touch>>
           ELSE /\ pot_call' = clamp(raw_call)
                /\ pot_put' = clamp(raw_put)
                /\ prob_either_touch' = either_touch(pot_call', pot_put')
                /\ prob_neither_touch' =
                       neither_touch(pot_call', pot_put', prob_either_touch')
                /\ exc' = exc
                /\ pc' = "display"
    /\ UNCHANGED <<inputs, market, actual_days_to_expiration, strikes, rows,
                   ivs, errors, shown, fvars>>

\* Lines 163-180: the results of the selected strategy.
results ==
    IF strategy = "Iron Condor"
    THEN << Line("Short Call Strike", plain(call_strike)),
            Line("Short Call POT", percent1(pot_call)),
            Line("Short Put Strike", plain(put_strike)),
            Line("Short Put POT", percent1(pot_put)),
            Line("Probability Neither Strike Touches", percent1(prob_neither_touch)) >>
    ELSE IF strategy = "Short Put"
    THEN << Line("Short Put Strike", plain(put_strike)),
            Line("Short Put POT", percent1(pot_put)) >>
    ELSE << Line("Short Call Strike", plain(call_strike)),
            Line("Short Call POT", percent1(pot_call)) >>

\* Lines 183-186: the underlying.
underlying ==
    << Line("Current Value", plain(S)),
       Line("Strategy Expiry", plain(PyInt(actual_days_to_expiration))) >>

\* Lines 189-212: the implied volatility of the legs of the strategy.
stats ==
    (IF needs_call
     THEN << Line("Short Call IV", percent2(call_iv)) >>
     ELSE << Line("No Short Call position for this strategy.", plain(PyInt(0))) >>)
    \o
    (IF needs_put
     THEN << Line("Short Put IV", percent2(put_iv)) >>
     ELSE << Line("No Short Put position for this strategy.", plain(PyInt(0))) >>)

\* Lines 157-215: the display.  Formatting None with a float format raises
\* after the results are written.
Display ==
    /\ pc = "display"
    /\ IF agree /\ needs_call /\ call_iv.t = "NoneType"
       THEN /\ shown' = results \o underlying
            /\ exc' = "TypeError"
            /\ pc' = "except"
       ELSE IF agree /\ needs_put /\ put_iv.t = "NoneType"
       THEN /\ shown' = results \o underlying \o
                        << Line("Short Call IV", percent2(call_iv)) >>
            /\ exc' = "TypeError"
            /\ pc' = "except"
       ELSE /\ shown' = results \o underlying \o (IF agree THEN stats ELSE <<>>)
            /\ exc' = exc
            /\ pc' = "done"
    /\ UNCHANGED <<inputs, market, actual_days_to_expiration, strikes, rows,
                   ivs, pots, errors, fvars>>

\* Lines 217-218: except Exception as e: st.error(...).
HandleException ==
    /\ pc = "except"
    /\ errors' = Append(errors, "Something went wrong")
    /\ pc' = "done"
    /\ UNCHANGED <<inputs, market, actual_days_to_expiration, strikes, rows,
                   ivs, pots, exc, shown, fvars>>

Next ==
    \/ FetchData
    \/ CheckPrice
    \/ PickExpiration
    \/ ResolveStrikes
    \/ CheckAvailability
    \/ PullImpliedVolatility
    \/ Combine
    \/ Display
    \/ HandleException

Spec == Init /\ [][Next]_vars

----
\* One call of prob_touch on its own, over every kind of argument.
FnSpots == {Float(n) : n \in (0 - 1)..MaxPrice}
FnStrikes == {[t |-> ty, v |-> n] : ty \in {"float", "float64"}, n \in 0..MaxPrice}
FnDays == {0 - 7, 0, 30, 91, 365}
FnSigmas == {NaN, Float64(0 - 20), Float64(0), Float64(20), Float64(50), Float64(100)}

FnInit ==
    /\ pc = "idle"
    /\ strategy = "Iron Condor" /\ use_custom_strikes = FALSE
    /\ custom_call_strike = None /\ custom_put_strike = None
    /\ pct_OTM = 0 /\ days_to_expiration = 0 /\ agree = FALSE
    /\ S = None /\ history_ok = TRUE
    /\ expirations = <<>> /\ calls = <<>> /\ puts = <<>>
    /\ actual_days_to_expiration = 0
    /\ call_strike = None /\ put_strike = None
    /\ call_row = NoFrame /\ put_row = NoFrame
    /\ call_iv = None /\ put_iv = None
    /\ pot_call = None /\ pot_put = None
    /\ prob_either_touch = None /\ prob_neither_touch = None
    /\ exc = "" /\ errors = <<>> /\ shown = <<>>
    /\ fS \in FnSpots /\ fK \in FnStrikes /\ fT \in FnDays /\ fSigma \in FnSigmas
    /\ fpc = "call" /\ fRet = None

\* fRet = prob_touch(fS, fK, fT, fSigma); an exception is the returned record.
CallProbTouch ==
    /\ fpc = "call"
    /\ fRet' = prob_touch(fS, fK, fT, fSigma)
    /\ fpc' = "returned"
    /\ UNCHANGED <<pc, inputs, market, actual_days_to_expiration, strikes, rows,
                   ivs, pots, exc, errors, shown, fS, fK, fT, fSigma>>

FnNext == CallProbTouch

FnSpec == FnInit /\ [][FnNext]_vars

----
\* Properties of prob_touch, checked under FnSpec.

Returned == fpc = "returned"
Degenerate == fT <= 0 \/ (fSigma.t # "nan" /\ fSigma.v <= 0)
Regular == fT > 0 /\ fSigma.t = "float64" /\ fSigma.v > 0

\* C3: prob_touch returns 0 whenever T <= 0 or sigma <= 0, whatever S and K
\* are (S = K, K = 0, S <= 0 included), and does not raise.
C3_DegenerateReturnsZero ==
    (Returned /\ Degenerate) => fRet = PyInt(0)

C3_Witness ==
    /\ Returned /\ fT > 0 /\ fSigma = Float64(0)
    /\ fK.v = 0 /\ fS.v = 0 /\ fRet = PyInt(0)

\* C6: prob_touch(S, S, T, sigma) is 1 for every S > 0, T > 0, sigma > 0.
C6_AtTheMoneyIsOne ==
    (Returned /\ Regular /\ fS.v > 0 /\ fK.v = fS.v) => (IsNum(fRet) /\ fRet.v = One)

C6_Witness ==
    /\ Returned /\ Regular /\ fS.v > 0 /\ fK.v = fS.v /\ fK.t = "float64"
    /\ fRet = Float64(One)

\* abs(log(S / K)) for a positive spot and a positive strike.
AbsLog(K) == Abs(log_ratio(fS, K).v)
Positive == fS.v > 0 /\ fK.v > 0
OtherStrikes == {K \in FnStrikes : K.v > 0}
Touch(K) == prob_touch(fS, K, fT, fSigma)

\* C7 as stated: with S, T > 0 and sigma > 0 fixed, prob_touch strictly
\* decreases as |ln(S/K)| increases, and strikes at the same log-distance
\* get the same probability.
C7_StrictlyDecreasing ==
    (Returned /\ Regular /\ Positive) =>
        \A K2 \in OtherStrikes :
            /\ AbsLog(fK) < AbsLog(K2) => fRet.v > Touch(K2).v
            /\ AbsLog(fK) = AbsLog(K2) => fRet.v = Touch(K2).v

\* C7 amended: with S, T > 0 and sigma > 0 fixed, prob_touch does not
\* increase as |ln(S/K)| increases (far strikes share the value 0, where
\* norm.cdf has rounded to 1), and strikes at the same log-distance get the
\* same probability.
C7_NonIncreasing ==
    (Returned /\ Regular /\ Positive) =>
        \A K2 \in OtherStrikes :
            /\ AbsLog(fK) < AbsLog(K2) => fRet.v >= Touch(K2).v
            /\ AbsLog(fK) = AbsLog(K2) => fRet.v = Touch(K2).v

C7_Witness ==
    /\ Returned /\ Regular /\ Positive
    /\ \E K2 \in OtherStrikes :
         AbsLog(fK) < AbsLog(K2) /\ fRet.v > Touch(K2).v /\ Touch(K2).v > 0
    /\ \E K2 \in OtherStrikes :
         K2.v # fK.v /\ AbsLog(fK) = AbsLog(K2) /\ fRet.v = Touch(K2).v

\* C8: with T > 0 and sigma > 0, prob_touch does not raise; an input on
\* which the formula has a domain error (K = 0, S = 0, S / K negative)
\* yields 0.
C8_DomainErrorYieldsZero ==
    (Returned /\ Regular /\ (fK.v = 0 \/ fS.v <= 0)) =>
        (IsNum(fRet) /\ fRet.v = 0)

----
\* Properties of a run of the script, checked under Spec.

Ended == pc \in {"done", "stopped"}
Combined == prob_either_touch # None
InRange(x) == IsNum(x) /\ 0 <= x.v /\ x.v <= One
NotAvailable ==
    "One or more of the strikes entered is not available in the options chain for this ticker"
Reported(msg) == \E i \in 1..Len(errors) : errors[i] = msg

\* C1: the touch probabilities that reach the combination step lie in
\* [0, 1] for every input, and so do prob_either_touch and
\* prob_neither_touch.
C1_ProbabilitiesInRange ==
    Combined => /\ InRange(pot_call) /\ InRange(pot_put)
                /\ InRange(prob_either_touch) /\ InRange(prob_neither_touch)

Unavailable(iv) == iv.t \in {"nan", "NoneType"}
StrikeMissing(chain, strike) ==
    strike.t # "NoneType" /\ filter(chain, strike).rows = <<>>
VolatilityMissing(row) ==
    row.t = "DataFrame" /\ row.rows # <<>> /\ Unavailable(row.rows[1].impliedVolatility)
LegMissing ==
    \/ needs_call /\ (StrikeMissing(calls, call_strike) \/ VolatilityMissing(call_row))
    \/ needs_put /\ (StrikeMissing(puts, put_strike) \/ VolatilityMissing(put_row))

\* C2: when a leg the strategy needs is missing (its strike is not in the
\* chain, or its implied volatility is unavailable), the run ends in the
\* data-availability error and displays no result.
C2_MissingLegIsAnError ==
    (Ended /\ LegMissing) => (Reported(NotAvailable) /\ shown = <<>>)

\* C4: for the Condor, prob_either_touch is pot_call + pot_put -
\* pot_call * pot_put, prob_neither_touch is 1 - prob_either_touch, and the
\* two add up to exactly 1, for every pair of probabilities in [0, 1].
C4_EitherPlusNeitherIsOne ==
    (Combined /\ strategy = "Iron Condor" /\ InRange(pot_call) /\ InRange(pot_put)) =>
        /\ prob_either_touch.v = pot_call.v + pot_put.v - Mul(pot_call.v, pot_put.v)
        /\ prob_neither_touch.v = One - prob_either_touch.v
        /\ prob_either_touch.v + prob_neither_touch.v = One

C4_Witness ==
    /\ Combined /\ strategy = "Iron Condor"
    /\ InRange(pot_call) /\ 0 < pot_call.v /\ pot_call.v < One
    /\ InRange(pot_put) /\ 0 < pot_put.v /\ pot_put.v < One
    /\ Mul(pot_call.v, pot_put.v) > 0

Complement(x) == IF x.t = "nan" THEN NaN ELSE Float64(One - x.v)
Written(label, s) == \E i \in 1..Len(shown) : shown[i] = Line(label, s)

\* C5: for Short Call (Short Put) the reported touch probability is the
\* clamped probability of the call (put) leg and the neither probability is
\* 1 minus it, the other leg adding nothing, with custom strikes and with
\* percent-OTM strikes alike.
C5_SingleLegOutcome ==
    /\ (Combined /\ strategy = "Short Call") =>
           /\ prob_neither_touch = Complement(pot_call)
           /\ pc = "done" => Written("Short Call POT", percent1(pot_call))
    /\ (Combined /\ strategy = "Short Put") =>
           /\ prob_neither_touch = Complement(pot_put)
           /\ pc = "done" => Written("Short Put POT", percent1(pot_put))

InChain(chain, strike) == \E i \in 1..Len(chain) : chain[i].strike = strike
Closest(chain, strike, target100) ==
    /\ InChain(chain, strike)
    /\ \A i \in 1..Len(chain) :
           Abs(100 * strike.v - target100) <= Abs(100 * chain[i].strike.v - target100)

\* C9: in percent-OTM mode the call (put) strike chosen is a strike of the
\* chain at the least absolute distance from S * (1 + pct/100)
\* (S * (1 - pct/100)), so it is found in the chain and the
\* strike-not-available error does not fire.
C9_NearestStrikeChosen ==
    ~use_custom_strikes =>
        /\ call_strike.t # "NoneType" =>
               Closest(calls, call_strike, S.v * (100 + pct_OTM))
        /\ put_strike.t # "NoneType" =>
               Closest(puts, put_strike, S.v * (100 - pct_OTM))
        /\ ~Reported(NotAvailable)

C9_Witness ==
    /\ ~use_custom_strikes /\ pc = "iv"
    /\ Len(calls) > 1 /\ Len(puts) > 1
    /\ \E i \in 1..Len(calls) :
         distance(calls[i], S.v * (100 + pct_OTM)) >
             Abs(100 * call_strike.v - S.v * (100 + pct_OTM))
    /\ \E i \in 1..Len(puts) :
         distance(puts[i], S.v * (100 - pct_OTM)) >
             Abs(100 * put_strike.v - S.v * (100 - pct_OTM))

\* C10: when the live price cannot be fetched (S is None) the run reports
\* 'Could not fetch live price for this ticker' and stops, before S enters
\* any arithmetic and before anything else is read, computed or shown.
C10_NoPriceIsReported ==
    (pc \in {"except", "done", "stopped"} /\ S.t = "NoneType") =>
        /\ exc = ""
        /\ Ended => errors = << "Could not fetch live price for this ticker." >>

====
